---- MODULE Spec2Model ----
(***************************************************************************)
(* Model of flake8_html/plugin.py: the HTMLPlugin formatter driven by the  *)
(* host callbacks beginning / handle / finished / stop, and the pure       *)
(* helpers find_severity and get_report_filename.                          *)
(*                                                                         *)
(* Strings are sequences of one-character strings, so that prefix tests,   *)
(* replace, strip, splitext and lexicographic comparison are computed.     *)
(***************************************************************************)
EXTENDS Integers, Sequences, FiniteSets, TLC

(***************************************************************************)
(* Bounds                                                                  *)
(***************************************************************************)
MaxRunErrors == 2    \* handle() calls per file in the multi-file run
MaxFileErrors == 4   \* handle() calls in the single-file run
MaxCodeLen == 3      \* length of the generated inputs of find_severity

(***************************************************************************)
(* Strings                                                                 *)
(***************************************************************************)
\* Code point of a character (Python compares str by code point).
Ord(c) ==
    CASE c = "." -> 46 [] c = "/" -> 47
      [] c = "0" -> 48 [] c = "1" -> 49 [] c = "2" -> 50 [] c = "4" -> 52
      [] c = "5" -> 53 [] c = "6" -> 54 [] c = "9" -> 57
      [] c = "C" -> 67 [] c = "D" -> 68 [] c = "E" -> 69 [] c = "F" -> 70
      [] c = "Q" -> 81 [] c = "W" -> 87
      [] c = "a" -> 97 [] c = "b" -> 98
      [] OTHER -> 120   \* lower-case letters of paths, never compared

\* a < b for Python str
StrLess(a, b) ==
    \E k \in 1..(Len(a) + 1) :
        /\ k <= Len(b)
        /\ \A i \in 1..(k - 1) : a[i] = b[i]
        /\ (k = Len(a) + 1 \/ Ord(a[k]) < Ord(b[k]))

\* str.startswith
startswith(s, p) == Len(p) <= Len(s) /\ SubSeq(s, 1, Len(p)) = p

\* str.rfind for a single character, 1-based, 0 when absent
rfind(s, c) ==
    LET idx == {i \in 1..Len(s) : s[i] = c}
    IN  IF idx = {} THEN 0 ELSE CHOOSE i \in idx : \A j \in idx : j <= i

\* str.replace of one character by another
replace(s, a, b) == [i \in 1..Len(s) |-> IF s[i] = a THEN b ELSE s[i]]

\* str.strip(c) for a single character c
strip(s, c) ==
    LET idx == {i \in 1..Len(s) : s[i] # c}
    IN  IF idx = {} THEN <<>>
        ELSE SubSeq(s, CHOOSE i \in idx : \A j \in idx : i <= j,
                       CHOOSE i \in idx : \A j \in idx : j <= i)

\* os.path.splitext(p)[0] on POSIX: the extension starts at the last dot of
\* the last path component, unless that component has only leading dots
\* before it.
splitext_stem(p) ==
    LET sepIndex == rfind(p, "/")
        dotIndex == rfind(p, ".")
    IN  IF /\ dotIndex > sepIndex
           /\ \E k \in (sepIndex + 1)..(dotIndex - 1) : p[k] # "."
        THEN SubSeq(p, 1, dotIndex - 1)
        ELSE p

\* re.sub(r'^\./', '', filename)
strip_dot_slash(filename) ==
    IF startswith(filename, <<".", "/">>)
    THEN SubSeq(filename, 3, Len(filename))
    ELSE filename

(***************************************************************************)
(* Severity classification                                                 *)
(***************************************************************************)
SEVERITY_ORDER_swapped ==
    << [prefix |-> <<"E">>, sev |-> 2],
       [prefix |-> <<"F">>, sev |-> 1],
       [prefix |-> <<"E", "9">>, sev |-> 1],
       [prefix |-> <<"W">>, sev |-> 2],
       [prefix |-> <<"C">>, sev |-> 2],
       [prefix |-> <<"D">>, sev |-> 3] >>

SEVERITY_ORDER ==
    << [prefix |-> <<"E", "9">>, sev |-> 1],
       [prefix |-> <<"F">>, sev |-> 1],
       [prefix |-> <<"E">>, sev |-> 2],
       [prefix |-> <<"W">>, sev |-> 2],
       [prefix |-> <<"C">>, sev |-> 2],
       [prefix |-> <<"D">>, sev |-> 3] >>

DEFAULT_SEVERITY == 3

SEVERITY_NAMES == <<"high", "medium", "low">>

RECURSIVE find_severity_from(_, _)
\* the for loop of find_severity, from rule i on
find_severity_from(code, i) ==
    IF i > Len(SEVERITY_ORDER) THEN DEFAULT_SEVERITY
    ELSE IF startswith(code, SEVERITY_ORDER[i].prefix)
         THEN SEVERITY_ORDER[i].sev
         ELSE find_severity_from(code, i + 1)

find_severity(code) == find_severity_from(code, 1)

(***************************************************************************)
(* Output file names                                                       *)
(***************************************************************************)
outdir == <<"o">>

SuffixReport == <<".", "r", "e", "p", "o", "r", "t">>
SuffixSource == <<".", "s", "o", "u", "r", "c", "e">>
ExtHtml == <<".", "h", "t", "m", "l">>

\* '{}{}.html'.format(stem.replace(os.sep, '.').strip('.'), suffix)
report_basename(filename, suffix) ==
    strip(replace(splitext_stem(filename), "/", "."), ".") \o suffix \o ExtHtml

\* os.path.join(outdir, name)
outpath(name) == outdir \o <<"/">> \o name

get_report_filename(filename, suffix) ==
    outpath(report_basename(filename, suffix))

\* os.path.basename
basename(p) == SubSeq(p, rfind(p, "/") + 1, Len(p))

StylesPath == outpath(<<"s", "t", "y", "l", "e", "s", ".", "c", "s", "s">>)
IndexPath == outpath(<<"i", "n", "d", "e", "x", ".", "h", "t", "m", "l">>)

(***************************************************************************)
(* Inputs supplied by the host                                             *)
(***************************************************************************)
File_dot_m == <<".", "/", "m", ".", "p", "y">>       \* "./m.py"
File_p_m == <<"p", "/", "m", ".", "p", "y">>         \* "p/m.py"
File_pdotm == <<"p", ".", "m", ".", "p", "y">>       \* "p.m.py"
Files == {File_dot_m, File_p_m, File_pdotm}

F401 == <<"F", "4", "0", "1">>
E501 == <<"E", "5", "0", "1">>
E201 == <<"E", "2", "0", "1">>
E999 == <<"E", "9", "9", "9">>
W605 == <<"W", "6", "0", "5">>
C901 == <<"C", "9", "0", "1">>
D100 == <<"D", "1", "0", "0">>
Q000 == <<"Q", "0", "0", "0">>

Error(code, text, line) == [code |-> code, text |-> text, line_number |-> line]

\* errors the host reports in the multi-file run
RunErrors == {Error(F401, <<"a">>, 1), Error(D100, <<"b">>, 2)}

\* errors the host reports in the single-file run
FileErrors ==
    {Error(F401, <<"a">>, 1),
     Error(E201, <<"a">>, 1), Error(E201, <<"a">>, 2),
     Error(E501, <<"a">>, 1), Error(E501, <<"a">>, 2),
     Error(E501, <<"b">>, 1), Error(E501, <<"b">>, 2)}

CodeAlphabet == {"E", "9", "F", "W", "C", "D", "Q", "1"}
CodeInputs ==
    UNION {[1..n -> CodeAlphabet] : n \in 0..MaxCodeLen}
      \cup {F401, E501, E201, E999, W605, C901, D100, Q000}

(***************************************************************************)
(* State                                                                   *)
(***************************************************************************)
VARIABLES
    pc,          \* position of the host: "idle", "infile", "stopped"
    cur,         \* filename of the last beginning() call
    files,       \* self.files: list of IndexEntry
    file_count,  \* self.file_count
    errors,      \* self.errors: list of (error, sev)
    by_code,     \* self.by_code: insertion-ordered dict code -> list of errors
    disk,        \* the output directory: path -> what was written there
    unlinked,    \* paths removed by the last finished() call
    params,      \* template parameters of the last dirty finished() call
    stdout,      \* lines printed
    out,         \* template parameters of the index written by stop()
    handled,     \* history: filename -> errors passed to handle() for it
    named,       \* history: finished filename -> the two paths computed
    code_in,     \* argument of a stand-alone find_severity call
    sev_out      \* its result, 0 before the call

vars == <<pc, cur, files, file_count, errors, by_code, disk, unlinked,
          params, stdout, out, handled, named, code_in, sev_out>>

NoParams ==
    [filename |-> <<>>, report_filename |-> <<>>, source_filename |-> <<>>,
     errors |-> <<>>, line_sevs |-> <<>>, highest_sev |-> 0, index |-> <<>>]

NoOut == [file_count |-> 0, index |-> <<>>, highest_sev |-> 0]

Stale == [kind |-> "stale", filename |-> <<>>]

(***************************************************************************)
(* Helpers of the handlers                                                 *)
(***************************************************************************)
SetMin(S) == CHOOSE x \in S : \A y \in S : x <= y

\* sorted()/list.sort(): stable sort; less[i][j] says that the key of s[i]
\* is strictly below the key of s[j]
sorted(s, less) ==
    LET n == Len(s)
        rank(i) == 1 + Cardinality({j \in 1..n :
                          \/ less[j][i]
                          \/ (~less[i][j] /\ j < i)})
    IN  [k \in 1..n |-> s[CHOOSE i \in 1..n : rank(i) = k]]

\* self.by_code[code].append(error) on a defaultdict(list)
dict_append(d, code, error) ==
    IF \E i \in 1..Len(d) : d[i].code = code
    THEN [i \in 1..Len(d) |->
            IF d[i].code = code
            THEN [d[i] EXCEPT !.errors = Append(@, error)]
            ELSE d[i]]
    ELSE Append(d, [code |-> code, errors |-> <<error>>])

is_clean_short(errs) == Len(errs) <= 1

\* not self.errors
is_clean(errs) == errs = <<>>

stale_artifacts_report_only(report_filename, source_filename) ==
    {report_filename}

\* for f in [report_filename, source_filename]
stale_artifacts(report_filename, source_filename) ==
    {report_filename, source_filename}

first_error(errs) == errs[1]

\* min(errors, key=attrgetter('line_number')): the first minimal element
min_by_line(errs) ==
    errs[CHOOSE i \in 1..Len(errs) :
            /\ \A j \in 1..Len(errs) : errs[i].line_number <= errs[j].line_number
            /\ \A j \in 1..(i - 1) : errs[j].line_number > errs[i].line_number]

\* (line_number, text) tuple order
line_text_less(a, b) ==
    \/ a[1] < b[1]
    \/ (a[1] = b[1] /\ StrLess(a[2], b[2]))

\* one row of the per-code index
index_row(code, errs) ==
    LET e == min_by_line(errs)
    IN  [sev |-> find_severity(code),
         count |-> Len(errs),
         code |-> code,
         text |-> e.text,
         line_number |-> e.line_number,
         unique_messages |-> Cardinality({errs[i].text : i \in 1..Len(errs)}),
         errs |-> LET pairs == [i \in 1..Len(errs) |->
                                    <<errs[i].line_number, errs[i].text>>]
                  IN  sorted(pairs, [i \in 1..Len(errs) |-> [j \in 1..Len(errs) |->
                                        line_text_less(pairs[i], pairs[j])]])]

index_key_less_count_ascending(a, b) ==
    \/ a.sev < b.sev
    \/ (a.sev = b.sev /\ a.count < b.count)
    \/ (a.sev = b.sev /\ a.count = b.count /\ StrLess(a.code, b.code))

\* key=lambda r: (r[0], -r[1], r[2])
index_key_less(a, b) ==
    \/ a.sev < b.sev
    \/ (a.sev = b.sev /\ -a.count < -b.count)
    \/ (a.sev = b.sev /\ a.count = b.count /\ StrLess(a.code, b.code))

\* the index built from self.by_code, sorted
build_index(d) ==
    LET rows == [i \in 1..Len(d) |-> index_row(d[i].code, d[i].errors)]
    IN  sorted(rows, [i \in 1..Len(d) |-> [j \in 1..Len(d) |->
                        index_key_less(rows[i], rows[j])]])

\* counts = Counter() of codes per severity, printed in sorted order
build_scores(d) ==
    LET count(sev) == Cardinality({i \in 1..Len(d) : find_severity(d[i].code) = sev})
        present == SelectSeq(<<1, 2, 3>>, LAMBDA sev : count(sev) > 0)
    IN  [k \in 1..Len(present) |-> <<SEVERITY_NAMES[present[k]], count(present[k])>>]

\* by_line: line -> list of (error, sev), in arrival order
build_by_line(errs) ==
    [l \in {errs[i].error.line_number : i \in 1..Len(errs)} |->
        SelectSeq(errs, LAMBDA p : p.error.line_number = l)]

\* line_sevs: line -> min severity on that line
build_line_sevs(errs) ==
    LET by_line == build_by_line(errs)
    IN  [l \in DOMAIN by_line |->
            SetMin({by_line[l][i].sev : i \in 1..Len(by_line[l])})]

\* min(sev for e, sev in self.errors)
file_highest_sev(errs) == SetMin({errs[i].sev : i \in 1..Len(errs)})

entry_key_less_count_ascending(a, b) ==
    \/ a.highest_sev < b.highest_sev
    \/ (a.highest_sev = b.highest_sev /\ a.error_count < b.error_count)

\* key=lambda e: (e.highest_sev, -e.error_count)
entry_key_less(a, b) ==
    \/ a.highest_sev < b.highest_sev
    \/ (a.highest_sev = b.highest_sev /\ -a.error_count < -b.error_count)

overall_highest_sev_max(fs) ==
    IF fs # <<>>
    THEN CHOOSE x \in {fs[i].highest_sev : i \in 1..Len(fs)} :
            \A i \in 1..Len(fs) : fs[i].highest_sev <= x
    ELSE 4

\* highest_sev of write_index
overall_highest_sev(fs) ==
    IF fs # <<>> THEN SetMin({fs[i].highest_sev : i \in 1..Len(fs)}) ELSE 4

\* dict update / insert
Put(f, k, v) == [x \in (DOMAIN f) \cup {k} |-> IF x = k THEN v ELSE f[x]]
\* dict without some keys
Without(f, ks) == [x \in (DOMAIN f) \ ks |-> f[x]]

(***************************************************************************)
(* Initial states                                                          *)
(***************************************************************************)
\* after_init(), with whatever an earlier run left in the output directory
InitWith(stale) ==
    /\ pc = "idle"
    /\ cur = <<>>
    /\ files = <<>>
    /\ file_count = 0
    /\ errors = <<>>
    /\ by_code = <<>>
    /\ disk = [p \in stale |-> Stale]
    /\ unlinked = {}
    /\ params = NoParams
    /\ stdout = <<>>
    /\ out = NoOut
    /\ handled = <<>>
    /\ named = <<>>
    /\ code_in = <<>>
    /\ sev_out = 0

\* what an earlier run can have left: both artifacts of some of the files, or
\* a lone report or a lone annotated source
StaleChoices ==
    {UNION {{get_report_filename(f, SuffixReport),
             get_report_filename(f, SuffixSource)} : f \in fs} : fs \in SUBSET Files}
      \cup {{get_report_filename(File_dot_m, SuffixReport)},
            {get_report_filename(File_p_m, SuffixSource)}}

Init == \E stale \in StaleChoices : InitWith(stale)

(***************************************************************************)
(* Handlers                                                                *)
(***************************************************************************)
Beginning_keep_errors(filename) ==
    /\ pc = "idle"
    /\ filename \notin DOMAIN handled
    /\ pc' = "infile"
    /\ cur' = filename
    /\ file_count' = file_count + 1
    /\ handled' = Put(handled, filename, <<>>)
    /\ UNCHANGED <<errors, by_code, files, disk, unlinked, params, stdout, out,
                   named, code_in, sev_out>>

\* beginning(filename); the host passes each file of the run once
Beginning(filename) ==
    /\ pc = "idle"
    /\ filename \notin DOMAIN handled
    /\ pc' = "infile"
    /\ cur' = filename
    /\ file_count' = file_count + 1
    /\ errors' = <<>>
    /\ by_code' = <<>>
    /\ handled' = Put(handled, filename, <<>>)
    /\ UNCHANGED <<files, disk, unlinked, params, stdout, out, named,
                   code_in, sev_out>>

\* handle(error)
Handle(error) ==
    /\ pc = "infile"
    /\ LET sev == find_severity(error.code)
       IN  errors' = Append(errors, [error |-> error, sev |-> sev])
    /\ by_code' = dict_append(by_code, error.code, error)
    /\ handled' = [handled EXCEPT ![cur] = Append(@, error)]
    /\ UNCHANGED <<pc, cur, files, file_count, disk, unlinked, params, stdout,
                   out, named, code_in, sev_out>>

\* finished(filename)
Finished ==
    /\ pc = "infile"
    /\ pc' = "idle"
    /\ LET report_filename == get_report_filename(cur, SuffixReport)
           source_filename == get_report_filename(cur, SuffixSource)
       IN  /\ named' = Put(named, cur, [report |-> report_filename,
                                        source |-> source_filename])
           /\ IF is_clean(errors)
              THEN LET gone == stale_artifacts(report_filename, source_filename)
                               \cap DOMAIN disk
                   IN  /\ disk' = Without(disk, gone)
                       /\ unlinked' = gone
                       /\ UNCHANGED <<files, params, stdout>>
              ELSE LET filename == strip_dot_slash(cur)
                       highest_sev == file_highest_sev(errors)
                       new_params ==
                           [filename |-> filename,
                            report_filename |-> basename(report_filename),
                            source_filename |-> basename(source_filename),
                            errors |-> build_by_line(errors),
                            line_sevs |-> build_line_sevs(errors),
                            highest_sev |-> highest_sev,
                            index |-> build_index(by_code)]
                   IN  /\ files' = Append(files,
                                     [filename |-> filename,
                                      report_name |-> basename(report_filename),
                                      error_count |-> Len(errors),
                                      highest_sev |-> highest_sev])
                       /\ stdout' = Append(stdout,
                                     [filename |-> cur,
                                      scores |-> build_scores(by_code)])
                       /\ params' = new_params
                       /\ disk' = Put(Put(disk, report_filename,
                                          [kind |-> "report", filename |-> filename]),
                                      source_filename,
                                      [kind |-> "source", filename |-> filename])
                       /\ unlinked' = {}
    /\ UNCHANGED <<cur, file_count, errors, by_code, out, handled,
                   code_in, sev_out>>

\* stop(): write_styles() then write_index()
Stop ==
    /\ pc = "idle"
    /\ pc' = "stopped"
    /\ out' = [file_count |-> file_count,
               index |-> sorted(files, [i \in 1..Len(files) |-> [j \in 1..Len(files) |->
                                          entry_key_less(files[i], files[j])]]),
               highest_sev |-> overall_highest_sev(files)]
    /\ disk' = Put(Put(disk, StylesPath, [kind |-> "styles", filename |-> <<>>]),
                   IndexPath, [kind |-> "index", filename |-> <<>>])
    /\ UNCHANGED <<cur, files, file_count, errors, by_code, unlinked, params,
                   stdout, handled, named, code_in, sev_out>>

\* a stand-alone call of find_severity
Classify ==
    /\ pc = "classify"
    /\ pc' = "classified"
    /\ sev_out' = find_severity(code_in)
    /\ UNCHANGED <<cur, files, file_count, errors, by_code, disk, unlinked,
                   params, stdout, out, handled, named, code_in>>

(***************************************************************************)
(* Specifications                                                          *)
(***************************************************************************)
\* a run over several files
Next ==
    \/ \E f \in Files : Beginning(f)
    \/ \E e \in RunErrors : Len(errors) < MaxRunErrors /\ Handle(e)
    \/ Finished
    \/ Stop

Spec == Init /\ [][Next]_vars

\* a run over one file with many errors, into a fresh output directory
InitFile == InitWith({})

NextFile ==
    \/ (file_count = 0 /\ Beginning(File_dot_m))
    \/ \E e \in FileErrors : Len(errors) < MaxFileErrors /\ Handle(e)
    \/ Finished
    \/ Stop

SpecFile == InitFile /\ [][NextFile]_vars

\* find_severity on its own
InitSev ==
    /\ pc = "classify"
    /\ code_in \in CodeInputs
    /\ sev_out = 0
    /\ cur = <<>> /\ files = <<>> /\ file_count = 0 /\ errors = <<>>
    /\ by_code = <<>> /\ disk = <<>> /\ unlinked = {} /\ params = NoParams
    /\ stdout = <<>> /\ out = NoOut /\ handled = <<>> /\ named = <<>>

NextSev == Classify

SpecSev == InitSev /\ [][NextSev]_vars

(***************************************************************************)
(* Properties                                                              *)
(***************************************************************************)

\* C1: the list of IndexEntry has an entry for a finished file if and only
\* if handle() recorded at least one error for it; a finished() with errors
\* appends exactly one entry (for that file), a finished() without errors
\* appends none, and no other step changes the list.
C1_IndexEntryIffDirty ==
    /\ [](/\ \A f \in DOMAIN named :
                (handled[f] # <<>>) <=>
                    (\E i \in 1..Len(files) : files[i].filename = strip_dot_slash(f))
          /\ \A i \in 1..Len(files) :
                \E f \in DOMAIN named :
                    /\ handled[f] # <<>>
                    /\ files[i].filename = strip_dot_slash(f)
          /\ Len(files) = Cardinality({f \in DOMAIN named : handled[f] # <<>>}))
    /\ [][LET finishing == pc = "infile" /\ pc' = "idle"
          IN  /\ (finishing /\ handled[cur] # <<>>) =>
                    /\ Len(files') = Len(files) + 1
                    /\ SubSeq(files', 1, Len(files)) = files
                    /\ files'[Len(files')].filename = strip_dot_slash(cur)
              /\ (finishing /\ handled[cur] = <<>>) => files' = files
              /\ ~finishing => files' = files]_vars

\* C1 witness: a finished run over two files, one with a single F401 error
\* and one clean: one entry, file_count 2, overall severity 1.
C1_Witness ==
    /\ pc = "stopped"
    /\ out.file_count = 2
    /\ Len(out.index) = 1
    /\ out.highest_sev = 1
    /\ \E f \in DOMAIN named : handled[f] = <<>>
    /\ \E f \in DOMAIN named : Len(handled[f]) = 1 /\ handled[f][1].code = F401

\* C2: a finished() for a file without recorded errors adds no IndexEntry,
\* and right after it neither the file's report nor its annotated source
\* exists in the output directory, whatever existed before.
C2_CleanFileRemovesArtifacts ==
    [][(pc = "infile" /\ pc' = "idle" /\ handled[cur] = <<>>) =>
          /\ files' = files
          /\ get_report_filename(cur, SuffixReport) \notin DOMAIN disk'
          /\ get_report_filename(cur, SuffixSource) \notin DOMAIN disk'
          /\ \A p \in DOMAIN disk :
                p \notin {get_report_filename(cur, SuffixReport),
                          get_report_filename(cur, SuffixSource)}
                    => (p \in DOMAIN disk' /\ disk'[p] = disk[p])]_vars

\* C2 witness: a clean file has just finished and both of its stale
\* artifacts were removed.
C2_Witness ==
    /\ pc = "idle"
    /\ cur \in DOMAIN named
    /\ handled[cur] = <<>>
    /\ unlinked = {get_report_filename(cur, SuffixReport),
                   get_report_filename(cur, SuffixSource)}
    /\ unlinked \cap DOMAIN disk = {}

\* C3: find_severity returns, for every code, the severity of the first
\* rule of E9->1, F->1, E->2, W->2, C->2, D->3 whose prefix starts the
\* code, and 3 when there is none; the result is in {1,2,3}; E999 and F401
\* give 1, E501, W605 and C901 give 2, D100 and Q000 give 3.
C3_FindSeverityFirstMatch ==
    LET rules == << <<<<"E", "9">>, 1>>, <<<<"F">>, 1>>, <<<<"E">>, 2>>,
                    <<<<"W">>, 2>>, <<<<"C">>, 2>>, <<<<"D">>, 3>> >>
        matches(i) == /\ Len(rules[i][1]) <= Len(code_in)
                      /\ \A k \in 1..Len(rules[i][1]) : code_in[k] = rules[i][1][k]
    IN  pc = "classified" =>
          /\ sev_out \in {1, 2, 3}
          /\ \A i \in 1..6 :
                (matches(i) /\ \A j \in 1..(i - 1) : ~matches(j))
                    => sev_out = rules[i][2]
          /\ (\A i \in 1..6 : ~matches(i)) => sev_out = 3
          /\ code_in = <<>> => sev_out = 3
          /\ code_in \in {E999, F401} => sev_out = 1
          /\ code_in \in {E501, W605, C901} => sev_out = 2
          /\ code_in \in {D100, Q000} => sev_out = 3

\* C3 witness: E999, which both the E9 and the E rule match, classified 1.
C3_Witness == pc = "classified" /\ code_in = E999 /\ sev_out = 1

\* C4: the per-code summary rows of a file with errors are ordered by
\* (severity ascending, occurrence count descending, code ascending).
C4_SummaryRowsOrdered ==
    LET idx == params.index
    IN  \A i, j \in 1..Len(idx) :
            i < j =>
                \/ idx[i].sev < idx[j].sev
                \/ (idx[i].sev = idx[j].sev /\ idx[i].count > idx[j].count)
                \/ /\ idx[i].sev = idx[j].sev
                   /\ idx[i].count = idx[j].count
                   /\ StrLess(idx[i].code, idx[j].code)

\* C4 witness: F401 with one occurrence is ranked before E501 with three.
C4_Witness ==
    /\ pc = "idle"
    /\ Len(params.index) = 2
    /\ params.index[1].code = F401 /\ params.index[1].count = 1
    /\ params.index[2].code = E501 /\ params.index[2].count = 3

\* C5: the index written by stop() holds exactly the accumulated entries,
\* ordered by highest severity ascending and, at equal highest severity,
\* by error count descending.
C5_IndexSorted ==
    pc = "stopped" =>
        /\ Len(out.index) = Len(files)
        /\ \A i \in 1..Len(files) :
              Cardinality({k \in 1..Len(out.index) : out.index[k] = files[i]})
                = Cardinality({k \in 1..Len(files) : files[k] = files[i]})
        /\ \A i, j \in 1..Len(out.index) :
              i < j =>
                  \/ out.index[i].highest_sev < out.index[j].highest_sev
                  \/ /\ out.index[i].highest_sev = out.index[j].highest_sev
                     /\ out.index[i].error_count >= out.index[j].error_count

\* C5 witness: two files of equal highest severity finished in the order
\* (fewer errors, more errors) and the index lists them the other way round.
C5_Witness ==
    /\ pc = "stopped"
    /\ Len(files) = 2
    /\ files[1].highest_sev = files[2].highest_sev
    /\ files[1].error_count < files[2].error_count
    /\ out.index = <<files[2], files[1]>>

\* C6: the overall highest severity of the index is the minimum highest_sev
\* of the entries, or 4 when there is no entry (also for a run over no
\* file); 4 is above every entry's severity; a run that recorded an error
\* of severity 1 reports 1.
C6_OverallHighestSeverity ==
    pc = "stopped" =>
        /\ files = <<>> => out.highest_sev = 4
        /\ file_count = 0 => out.highest_sev = 4
        /\ files # <<>> =>
              /\ \E i \in 1..Len(files) : out.highest_sev = files[i].highest_sev
              /\ \A i \in 1..Len(files) : out.highest_sev <= files[i].highest_sev
        /\ \A i \in 1..Len(files) : files[i].highest_sev \in 1..3
        /\ (\E f \in DOMAIN handled : \E k \in 1..Len(handled[f]) :
                find_severity(handled[f][k].code) = 1) => out.highest_sev = 1

\* C6 witness: the first file's highest severity is 1, the second file's is
\* 3, and the index reports 1.
C6_Witness ==
    /\ pc = "stopped"
    /\ Len(files) = 2
    /\ files[1].highest_sev = 1
    /\ files[2].highest_sev = 3
    /\ out.highest_sev = 1

\* C7: get_report_filename is injective: two distinct source paths that
\* finished() was called for never got the same report path nor the same
\* annotated-source path.
C7_ReportNamesInjective ==
    \A f, g \in DOMAIN named :
        f # g => /\ named[f].report # named[g].report
                 /\ named[f].source # named[g].source

\* C8: the IndexEntry of every file with errors counts exactly the handle()
\* calls made for that file, and its highest_sev is the minimum severity of
\* exactly those errors.
C8_NoLeakBetweenFiles ==
    \A f \in DOMAIN named :
        handled[f] # <<>> =>
            \E i \in 1..Len(files) :
                /\ files[i].filename = strip_dot_slash(f)
                /\ files[i].error_count = Len(handled[f])
                /\ \E k \in 1..Len(handled[f]) :
                      files[i].highest_sev = find_severity(handled[f][k].code)
                /\ \A k \in 1..Len(handled[f]) :
                      files[i].highest_sev <= find_severity(handled[f][k].code)

\* C8 witness: a file with two errors of severity 1, then a file with one
\* error of severity 3, each with its own entry.
C8_Witness ==
    /\ Len(files) = 2
    /\ files[1].error_count = 2 /\ files[1].highest_sev = 1
    /\ files[2].error_count = 1 /\ files[2].highest_sev = 3

\* C9: the code summary of a file with errors has exactly one row per
\* distinct recorded code; a row's count is the number of recorded errors
\* of its code, the counts sum to the entry's error_count, and the row's
\* message and line are those of an occurrence of the code with the
\* smallest line number.
C9_SummaryRowsPerCode ==
    (pc = "idle" /\ cur \in DOMAIN named /\ handled[cur] # <<>>) =>
        LET H == handled[cur]
            idx == params.index
            RECURSIVE total(_)
            total(n) == IF n = 0 THEN 0 ELSE idx[n].count + total(n - 1)
        IN  /\ {idx[i].code : i \in 1..Len(idx)} = {H[k].code : k \in 1..Len(H)}
            /\ \A i, j \in 1..Len(idx) : idx[i].code = idx[j].code => i = j
            /\ \A i \in 1..Len(idx) :
                  /\ idx[i].count =
                        Cardinality({k \in 1..Len(H) : H[k].code = idx[i].code})
                  /\ \E k \in 1..Len(H) :
                        /\ H[k].code = idx[i].code
                        /\ H[k].text = idx[i].text
                        /\ H[k].line_number = idx[i].line_number
                  /\ \A k \in 1..Len(H) :
                        H[k].code = idx[i].code
                            => idx[i].line_number <= H[k].line_number
            /\ total(Len(idx)) = files[Len(files)].error_count

\* C9 witness: E501 reported at line 2 and then at line 1 with another
\* message; the row shows line 1 and that message, with count 2.
C9_Witness ==
    /\ pc = "idle"
    /\ cur \in DOMAIN named
    /\ Len(handled[cur]) = 3
    /\ handled[cur][1] = Error(E501, <<"a">>, 2)
    /\ handled[cur][2] = Error(E501, <<"b">>, 1)
    /\ handled[cur][3].code = F401
    /\ \E i \in 1..Len(params.index) :
          /\ params.index[i].code = E501
          /\ params.index[i].count = 2
          /\ params.index[i].line_number = 1
          /\ params.index[i].text = <<"b">>

\* C10: when stop() has run, the report named by every IndexEntry and the
\* annotated source of every file with errors exist in the output directory.
C10_ArtifactsSurvive ==
    pc = "stopped" =>
        /\ \A i \in 1..Len(files) : outpath(files[i].report_name) \in DOMAIN disk
        /\ \A f \in DOMAIN named :
              handled[f] # <<>> =>
                  /\ named[f].report \in DOMAIN disk
                  /\ named[f].source \in DOMAIN disk

====
